---- MODULE Spec2Model ----
(***************************************************************************)
(* Model of src/round.rs (libmath-rs): decimal rounding of f64 values.     *)
(*                                                                         *)
(* An f64 is modelled bit-exactly as an IEEE-754 binary64 number: a class  *)
(* (nan, inf, zero, fin), a sign and, for finite non-zero numbers, a       *)
(* 53-bit significand m and an exponent e with value = m * 2^e.  The       *)
(* significand does not fit the model checker's integers, so it is kept as *)
(* a little-endian sequence of base-2^13 limbs.  Every f64 operation the   *)
(* source performs (multiply, divide, ceil, floor, cast to i64) is         *)
(* computed with round-to-nearest-even exactly as the hardware does.       *)
(***************************************************************************)
EXTENDS Integers, Sequences, FiniteSets, TLC

\* ------------------------------------------------------------------------
\* Bounds of the model
\* ------------------------------------------------------------------------
\* decimal literals n / 10^LitDigits with |n| <= MaxN are the inputs
MaxN == 150
\* scales 0 .. MaxScale
MaxScale == 2

\* number of decimal digits of an input literal
LitDigits == 2
\* limb size of the significand representation
Base == 8192
LimbBits == 13
\* binary64 precision
Precision == 53

\* ------------------------------------------------------------------------
\* Small integer helpers
\* ------------------------------------------------------------------------
RECURSIVE Pow2(_)
Pow2(k) == IF k = 0 THEN 1 ELSE 2 * Pow2(k - 1)

RECURSIVE Pow10(_)
Pow10(k) == IF k = 0 THEN 1 ELSE 10 * Pow10(k - 1)

Abs(n) == IF n < 0 THEN 0 - n ELSE n

\* Rust integer division truncates toward zero
TruncDiv(a, b) == IF a < 0 THEN 0 - ((0 - a) \div b) ELSE a \div b

RECURSIVE BitLenSmall(_)
BitLenSmall(n) == IF n = 0 THEN 0 ELSE 1 + BitLenSmall(n \div 2)

\* ------------------------------------------------------------------------
\* Natural numbers as limb sequences (least significant limb first,
\* no most-significant zero limb; zero is << >>)
\* ------------------------------------------------------------------------
RECURSIVE BTrim(_)
BTrim(a) ==
  IF a = << >> THEN << >>
  ELSE IF a[Len(a)] = 0 THEN BTrim(SubSeq(a, 1, Len(a) - 1))
  ELSE a

RECURSIVE BFromInt(_)
BFromInt(n) == IF n = 0 THEN << >> ELSE <<n % Base>> \o BFromInt(n \div Base)

RECURSIVE BToInt(_)
BToInt(a) == IF a = << >> THEN 0 ELSE Head(a) + Base * BToInt(Tail(a))

RECURSIVE BMulC(_, _, _)
BMulC(a, c, carry) ==
  IF a = << >>
  THEN BFromInt(carry)
  ELSE LET t == Head(a) * c + carry
       IN  <<t % Base>> \o BMulC(Tail(a), c, t \div Base)

\* a * c for a small factor c
BMulSmall(a, c) == BTrim(BMulC(a, c, 0))

\* a + c for a small addend c
BAddSmall(a, c) == BTrim(BMulC(a, 1, c))

RECURSIVE BDivStep(_, _)
BDivStep(a, d) ==
  IF a = << >>
  THEN [q |-> << >>, r |-> 0]
  ELSE LET Step(hi, lo) ==
             [q |-> <<(hi.r * Base + lo) \div d>> \o hi.q,
              r |-> (hi.r * Base + lo) % d]
       IN  Step(BDivStep(Tail(a), d), Head(a))

\* quotient and remainder of a by a small divisor d
BDivSmall(a, d) ==
  LET Trimmed(s) == [q |-> BTrim(s.q), r |-> s.r] IN Trimmed(BDivStep(a, d))

BBitLen(a) ==
  IF a = << >> THEN 0
  ELSE LimbBits * (Len(a) - 1) + BitLenSmall(a[Len(a)])

BIsOdd(a) == a # << >> /\ a[1] % 2 = 1

\* a * 2^k
BShl(a, k) ==
  IF a = << >> THEN << >>
  ELSE [i \in 1..(k \div LimbBits) |-> 0] \o BMulSmall(a, Pow2(k % LimbBits))

\* a \div 2^k, with sticky = "some discarded bit was 1"
BShr(a, k) ==
  LET j    == k \div LimbBits
      low  == IF j >= Len(a) THEN a ELSE SubSeq(a, 1, j)
      high == IF j >= Len(a) THEN << >> ELSE SubSeq(a, j + 1, Len(a))
      Shifted(d) ==
        [q |-> d.q,
         sticky |-> d.r # 0 \/ \E i \in 1..Len(low) : low[i] # 0]
  IN  Shifted(BDivSmall(high, Pow2(k % LimbBits)))

RECURSIVE BCmpFrom(_, _, _)
BCmpFrom(a, b, i) ==
  IF i = 0 THEN 0
  ELSE IF a[i] < b[i] THEN 0 - 1
  ELSE IF a[i] > b[i] THEN 1
  ELSE BCmpFrom(a, b, i - 1)

\* -1, 0, 1 as a < b, a = b, a > b
BCmp(a, b) ==
  IF Len(a) < Len(b) THEN 0 - 1
  ELSE IF Len(a) > Len(b) THEN 1
  ELSE BCmpFrom(a, b, Len(a))

RECURSIVE BDec(_)
\* a - 1 for a > 0
BDec(a) ==
  IF Head(a) > 0 THEN <<Head(a) - 1>> \o Tail(a)
  ELSE <<Base - 1>> \o BDec(Tail(a))

\* ------------------------------------------------------------------------
\* IEEE-754 binary64 values
\* ------------------------------------------------------------------------
NaN == [cls |-> "nan", neg |-> FALSE, m |-> << >>, e |-> 0]
Inf(neg) == [cls |-> "inf", neg |-> neg, m |-> << >>, e |-> 0]
Zero(neg) == [cls |-> "zero", neg |-> neg, m |-> << >>, e |-> 0]
Fin(neg, m, e) == [cls |-> "fin", neg |-> neg, m |-> m, e |-> e]

is_nan(x) == x.cls = "nan"
is_infinite(x) == x.cls = "inf"
IsFinite(x) == x.cls \in {"zero", "fin"}

\* The f64 nearest to (A + f) * 2^e, ties to even, where A is a natural
\* number and sticky says that the discarded fraction f is non-zero (then A
\* carries at least one bit more than the precision).  The exponents the
\* model reaches are far from the overflow and subnormal ranges.
RoundNearestEven(neg, A, e, sticky) ==
  LET \* the significand q carries one bit too many after a round-up to 2^53
      Renormalised(q, sh) ==
        IF BBitLen(q) > Precision
        THEN Fin(neg, BDivSmall(q, 2).q, e + sh + 1)
        ELSE Fin(neg, q, e + sh)
      \* d.q: the leading 53 bits, d.r: the first discarded bit,
      \* rest: whether a later discarded bit is set
      Rounded(d, rest, sh) ==
        Renormalised(IF d.r = 1 /\ (rest \/ sticky \/ BIsOdd(d.q))
                     THEN BAddSmall(d.q, 1) ELSE d.q, sh)
      Halved(s1, sh) == Rounded(BDivSmall(s1.q, 2), s1.sticky, sh)
      Sized(L) ==
        IF L <= Precision
        THEN Fin(neg, BShl(A, Precision - L), e - (Precision - L))
        ELSE Halved(BShr(A, L - Precision - 1), L - Precision)
  IN  IF A = << >> THEN Zero(neg) ELSE Sized(BBitLen(A))

\* i64 -> f64 conversion (exact for the integers of the model)
FFromInt(n) == RoundNearestEven(n < 0, BFromInt(Abs(n)), 0, FALSE)

\* x * c for a positive integer-valued f64 c
FMul(x, c) ==
  IF x.cls # "fin" THEN x
  ELSE RoundNearestEven(x.neg, BMulSmall(x.m, c), x.e, FALSE)

\* guard bits used by the division
DivGuard == 20

\* x / c for a positive integer-valued f64 c
FDiv(x, c) ==
  IF x.cls # "fin" THEN x
  ELSE LET Quotient(d) ==
             RoundNearestEven(x.neg, d.q, x.e - DivGuard, d.r # 0)
       IN  Quotient(BDivSmall(BShl(x.m, DivGuard), c))

\* f64::ceil
FCeil(x) ==
  IF x.cls # "fin" \/ x.e >= 0 THEN x
  ELSE LET Up(s) == IF ~x.neg /\ s.sticky THEN BAddSmall(s.q, 1) ELSE s.q
       IN  RoundNearestEven(x.neg, Up(BShr(x.m, 0 - x.e)), 0, FALSE)

\* f64::floor
FFloor(x) ==
  IF x.cls # "fin" \/ x.e >= 0 THEN x
  ELSE LET Down(s) == IF x.neg /\ s.sticky THEN BAddSmall(s.q, 1) ELSE s.q
       IN  RoundNearestEven(x.neg, Down(BShr(x.m, 0 - x.e)), 0, FALSE)

\* `as i64`: truncation toward zero of a finite f64 (the model's values stay
\* below 2^31 in magnitude); NaN casts to 0.  The source never casts an
\* infinity.
FToI64(x) ==
  IF x.cls # "fin" THEN 0
  ELSE LET Signed(ip) == IF x.neg THEN 0 - ip ELSE ip
       IN  Signed(IF x.e >= 0 THEN BToInt(BShl(x.m, x.e))
                  ELSE BToInt(BShr(x.m, 0 - x.e).q))

\* value < 0.
FLtZero(x) == x.cls \in {"fin", "inf"} /\ x.neg

\* f64 ==
FEq(x, y) ==
  /\ x.cls # "nan" /\ y.cls # "nan"
  /\ \/ x.cls = "zero" /\ y.cls = "zero"
     \/ x = y

\* magnitude order of two finite non-zero f64 (both significands normalised)
MagCmp(x, y) ==
  IF x.e < y.e THEN 0 - 1
  ELSE IF x.e > y.e THEN 1
  ELSE BCmp(x.m, y.m)

\* position on the number line of a non-NaN f64 relative to another:
\* -1, 0, 1
FCmp(x, y) ==
  LET sx == IF x.cls = "zero" THEN 0 ELSE IF x.neg THEN 0 - 1 ELSE 1
      sy == IF y.cls = "zero" THEN 0 ELSE IF y.neg THEN 0 - 1 ELSE 1
      mag == IF x.cls = "inf" /\ y.cls = "inf" THEN 0
             ELSE IF x.cls = "inf" THEN 1
             ELSE IF y.cls = "inf" THEN 0 - 1
             ELSE MagCmp(x, y)
  IN  IF sx < sy THEN 0 - 1
      ELSE IF sx > sy THEN 1
      ELSE IF sx = 0 THEN 0
      ELSE sx * mag

\* f64 <=
FLe(x, y) == x.cls # "nan" /\ y.cls # "nan" /\ FCmp(x, y) <= 0

\* ------------------------------------------------------------------------
\* src/round.rs
\* ------------------------------------------------------------------------
ceil(value, scale) ==
  LET multiplier == Pow10(scale)
  IN  FDiv(FCeil(FMul(value, multiplier)), multiplier)

floor(value, scale) ==
  LET multiplier == Pow10(scale)
  IN  FDiv(FFloor(FMul(value, multiplier)), multiplier)

round(value, scale, up) ==
  IF up THEN ceil(value, scale) ELSE floor(value, scale)

\* significant_digits without its early return: the saturating cast of
\* +Infinity / -Infinity is i64::MAX / i64::MIN, whose remainder by 1000
\* is 807 / -808
significant_digits_NoGuard(value, scale) ==
  LET x == FToI64(FMul(value, Pow10(scale + 2)))
      r == IF is_infinite(value)
           THEN (IF value.neg THEN 0 - 808 ELSE 807)
           ELSE x - TruncDiv(x, 1000) * 1000
      y == (Abs(r) \div 10) % 256
  IN  <<y \div 10, y % 10>>

significant_digits(value, scale) ==
  IF is_nan(value) \/ is_infinite(value) THEN <<0, 0>>
  ELSE LET Pair(y) == <<y \div 10, y % 10>>
           Low(x) == Pair((Abs(x - TruncDiv(x, 1000) * 1000) \div 10) % 256)
       IN  Low(FToI64(FMul(value, Pow10(scale + 2))))

\* to_nearest that rounds every tie up instead of drawing
to_nearest_NoRandom(value, scale, digit, coin) ==
  LET up == IF digit = 5 THEN TRUE
            ELSE FLtZero(value) # (digit > 5)
  IN  [val |-> round(value, scale, up), drew |-> FALSE]

\* coin is the value rand::random::<bool>() returns if it is called;
\* drew records whether it was called
to_nearest(value, scale, digit, coin) ==
  LET up == IF digit = 5 THEN coin
            ELSE FLtZero(value) # (digit > 5)
  IN  [val |-> round(value, scale, up), drew |-> digit = 5]

\* even_or_odd that forgets the sign of value on a tie
even_or_odd_NoSign(value, scale, even, coin) ==
  LET Match(digits) ==
        IF digits[2] = 5
        THEN [val |-> round(value, scale, even # (digits[1] % 2 = 0)),
              drew |-> FALSE]
        ELSE to_nearest(value, scale, digits[2], coin)
  IN  Match(significant_digits(value, scale))

even_or_odd(value, scale, even, coin) ==
  LET Match(digits) ==
        IF digits[2] = 5
        THEN [val |-> round(value, scale,
                            (FLtZero(value) # even) # (digits[1] % 2 = 0)),
              drew |-> FALSE]
        ELSE to_nearest(value, scale, digits[2], coin)
  IN  Match(significant_digits(value, scale))

\* towards_zero without the negation of `towards` on a tie
towards_zero_NoNot(value, scale, towards, coin) ==
  LET Match(digits) ==
        IF digits[2] = 5
        THEN [val |-> round(value, scale, FLtZero(value) # towards),
              drew |-> FALSE]
        ELSE to_nearest(value, scale, digits[2], coin)
  IN  Match(significant_digits(value, scale))

towards_zero(value, scale, towards, coin) ==
  LET Match(digits) ==
        IF digits[2] = 5
        THEN [val |-> round(value, scale, FLtZero(value) # (~towards)),
              drew |-> FALSE]
        ELSE to_nearest(value, scale, digits[2], coin)
  IN  Match(significant_digits(value, scale))

up_or_down(value, scale, up, coin) ==
  LET Match(digits) ==
        IF digits[2] = 5
        THEN [val |-> round(value, scale, up), drew |-> FALSE]
        ELSE to_nearest(value, scale, digits[2], coin)
  IN  Match(significant_digits(value, scale))

half_away_from_zero(value, scale, coin) == towards_zero(value, scale, FALSE, coin)
half_down(value, scale, coin) == up_or_down(value, scale, FALSE, coin)
half_to_even(value, scale, coin) == even_or_odd(value, scale, TRUE, coin)
\* half_to_odd passing `true`, as half_to_even does
half_to_odd_AsEven(value, scale, coin) == even_or_odd(value, scale, TRUE, coin)
half_to_odd(value, scale, coin) == even_or_odd(value, scale, FALSE, coin)
half_towards_zero(value, scale, coin) == towards_zero(value, scale, TRUE, coin)
half_up(value, scale, coin) == up_or_down(value, scale, TRUE, coin)
stochastic(value, scale, coin) ==
  LET Nearest(digits) == to_nearest(value, scale, digits[2], coin)
  IN  Nearest(significant_digits(value, scale))

\* ------------------------------------------------------------------------
\* Inputs
\* ------------------------------------------------------------------------
\* the f64 a decimal literal n / 10^LitDigits denotes (nearest, ties to even)
Literal(n) == FDiv(FFromInt(n), Pow10(LitDigits))

\* the adjacent f64 of larger / smaller magnitude
MagSucc(x) ==
  IF x.cls # "fin" THEN x
  ELSE LET Packed(q) ==
             IF BBitLen(q) > Precision
             THEN Fin(x.neg, BDivSmall(q, 2).q, x.e + 1)
             ELSE Fin(x.neg, q, x.e)
       IN  Packed(BAddSmall(x.m, 1))

MagPred(x) ==
  IF x.cls # "fin" THEN x
  ELSE LET Packed(q) ==
             IF BBitLen(q) < Precision
             THEN Fin(x.neg, BAddSmall(BMulSmall(q, 2), 1), x.e - 1)
             ELSE Fin(x.neg, q, x.e)
       IN  Packed(BTrim(BDec(x.m)))

\* every f64 the caller may pass: the literals, their two neighbours in
\* the f64 ordering, and the three non-finite values
Literals == (0 - MaxN)..MaxN
Offsets == {0 - 1, 0, 1}
Input(n, o) ==
  IF o = 0 THEN Literal(n)
  ELSE IF o = 1 THEN MagSucc(Literal(n))
  ELSE MagPred(Literal(n))
NonFinite == {NaN, Inf(FALSE), Inf(TRUE)}
Scales == 0..MaxScale

\* number of times a caller passes a result back in
MaxFeeds == 1

\* ------------------------------------------------------------------------
\* State: one caller using the library
\* ------------------------------------------------------------------------
VARIABLES
  value,    \* the f64 argument of the current call
  scale,    \* the u8 argument of the current call
  literal,  \* <<n>> when value comes from the literal n / 10^LitDigits
  ulp,      \* value is that literal's f64 moved ulp places away from zero
  pc,       \* "ready": arguments chosen, "done": the call has returned
  func,     \* the public function called last
  result,   \* what it returned
  drew,     \* whether the call consulted rand::random::<bool>()
  coin,     \* the boolean rand::random::<bool>() returned, if consulted
  fed,      \* the function whose result value is, "none" for caller input
  feeds     \* number of results passed back in so far

vars == <<value, scale, literal, ulp, pc, func, result, drew, coin, fed, feeds>>

Init ==
  /\ \/ \E n \in Literals, o \in Offsets :
          /\ value = Input(n, o)
          /\ literal = <<n>>
          /\ ulp = o
     \/ /\ value \in NonFinite
        /\ literal = << >>
        /\ ulp = 0
  /\ scale \in Scales
  /\ pc = "ready"
  /\ func = "none"
  /\ result = value
  /\ drew = FALSE
  /\ coin = FALSE
  /\ fed = "none"
  /\ feeds = 0

\* a call of the public function f returning r
Return(f, r, c) ==
  /\ pc = "ready"
  /\ pc' = "done"
  /\ func' = f
  /\ result' = r.val
  /\ drew' = r.drew
  /\ coin' = (r.drew /\ c)
  /\ UNCHANGED <<value, scale, literal, ulp, fed, feeds>>

Ceil ==
  Return("ceil", [val |-> ceil(value, scale), drew |-> FALSE], FALSE)

Floor ==
  Return("floor", [val |-> floor(value, scale), drew |-> FALSE], FALSE)

HalfAwayFromZero ==
  \E c \in BOOLEAN :
    Return("half_away_from_zero", half_away_from_zero(value, scale, c), c)

HalfDown ==
  \E c \in BOOLEAN : Return("half_down", half_down(value, scale, c), c)

HalfToEven ==
  \E c \in BOOLEAN : Return("half_to_even", half_to_even(value, scale, c), c)

HalfToOdd ==
  \E c \in BOOLEAN : Return("half_to_odd", half_to_odd(value, scale, c), c)

HalfTowardsZero ==
  \E c \in BOOLEAN :
    Return("half_towards_zero", half_towards_zero(value, scale, c), c)

HalfUp ==
  \E c \in BOOLEAN : Return("half_up", half_up(value, scale, c), c)

Stochastic ==
  \E c \in BOOLEAN : Return("stochastic", stochastic(value, scale, c), c)

\* the caller passes the result back in as the next argument, same scale
Feed ==
  /\ pc = "done"
  /\ feeds < MaxFeeds
  /\ value' = result
  /\ literal' = << >>
  /\ ulp' = 0
  /\ fed' = func
  /\ feeds' = feeds + 1
  /\ pc' = "ready"
  /\ func' = "none"
  /\ drew' = FALSE
  /\ coin' = FALSE
  /\ UNCHANGED <<scale, result>>

Next ==
  \/ Ceil
  \/ Floor
  \/ HalfAwayFromZero
  \/ HalfDown
  \/ HalfToEven
  \/ HalfToOdd
  \/ HalfTowardsZero
  \/ HalfUp
  \/ Stochastic
  \/ Feed

Spec == Init /\ [][Next]_vars

\* ------------------------------------------------------------------------
\* Exact arithmetic on f64 values, used to state the properties
\* ------------------------------------------------------------------------
\* |v| * 10^s as a real number: its integer part ip and where its fraction
\* lies ("zero", "below", "half", "above" relative to one half)
ExactScaled(v, s) ==
  IF v.cls # "fin" THEN [ip |-> 0, frac |-> "zero"]
  ELSE LET A == BMulSmall(v.m, Pow10(s)) IN
       IF v.e >= 0 THEN [ip |-> BToInt(BShl(A, v.e)), frac |-> "zero"]
       ELSE LET s1 == BShr(A, (0 - v.e) - 1)
                d  == BDivSmall(s1.q, 2)
            IN  [ip |-> BToInt(d.q),
                 frac |-> IF d.r = 0
                          THEN (IF s1.sticky THEN "below" ELSE "zero")
                          ELSE (IF s1.sticky THEN "above" ELSE "half")]

\* the f64 that n * 10^-s denotes
Multiple(n, s) == FDiv(FFromInt(n), Pow10(s))

\* the integers n for which n * 10^-s is nearest to the finite f64 v
NearestUnits(v, s) ==
  LET x  == ExactScaled(v, s)
      sg == IF v.neg THEN 0 - 1 ELSE 1
  IN  CASE x.frac \in {"zero", "below"} -> {sg * x.ip}
        [] x.frac = "above" -> {sg * (x.ip + 1)}
        [] OTHER -> {sg * x.ip, sg * (x.ip + 1)}

\* last decimal digit kept in a result r of a rounding to s digits
LastKeptDigit(r, s) ==
  LET x == ExactScaled(r, s)
  IN  (IF x.frac \in {"half", "above"} THEN x.ip + 1 ELSE x.ip) % 10

\* ones digit and decisive digit of the decimal n / 10^LitDigits at scale s
DecimalDigits(n, s) ==
  LET u == (Abs(n) * Pow10(s + 1)) \div Pow10(LitDigits)
  IN  <<(u \div 10) % 10, u % 10>>

FAbs(x) == [x EXCEPT !.neg = FALSE]
FNeg(x) == IF x.cls = "nan" THEN x ELSE [x EXCEPT !.neg = ~x.neg]

HalfFunctions ==
  {"half_up", "half_down", "half_towards_zero", "half_away_from_zero",
   "half_to_even", "half_to_odd", "stochastic"}

Digits == significant_digits(value, scale)
Returned(f) == pc = "done" /\ func = f
\* a call on a finite value that significant_digits reports as a tie
TieCall(f) == Returned(f) /\ IsFinite(value) /\ Digits[2] = 5

\* ------------------------------------------------------------------------
\* Properties
\* ------------------------------------------------------------------------

\* C1 (as stated): on a tie half_to_even returns ceil(value, scale) iff
\* (value < 0) XOR (onesDigit is even), and floor(value, scale) otherwise.
C1_HalfToEvenTieRuleAsStated ==
  TieCall("half_to_even") =>
    result = round(value, scale, FLtZero(value) # (Digits[1] % 2 = 0))

\* C1 (amended): on a tie half_to_even returns ceil(value, scale) iff
\* (value < 0) XOR (onesDigit is odd), and floor(value, scale) otherwise.
C1_HalfToEvenTieRule ==
  TieCall("half_to_even") =>
    result = round(value, scale, FLtZero(value) # (Digits[1] % 2 = 1))

\* half_to_even(-0.15, 1): ones digit 1, value negative, so floor: -0.2
C1_Witness ==
  /\ TieCall("half_to_even")
  /\ value = Literal(0 - 15) /\ scale = 1
  /\ Digits = <<1, 5>>
  /\ result = floor(value, scale)
  /\ result = Multiple(0 - 2, 1)
  /\ result # ceil(value, scale)

\* C2: on a tie half_to_even returns the one of floor / ceil whose last
\* kept decimal digit is even and half_to_odd the one whose last kept
\* decimal digit is odd, for either sign and with a carry out of a 9.
C2_TieParity ==
  /\ TieCall("half_to_even") =>
       /\ result \in {floor(value, scale), ceil(value, scale)}
       /\ LastKeptDigit(result, scale) % 2 = 0
  /\ TieCall("half_to_odd") =>
       /\ result \in {floor(value, scale), ceil(value, scale)}
       /\ LastKeptDigit(result, scale) % 2 = 1

\* half_to_even(-0.95, 1): ones digit 9, the carry gives -1.0
C2_Witness ==
  /\ TieCall("half_to_even")
  /\ value = Literal(0 - 95) /\ scale = 1
  /\ Digits = <<9, 5>>
  /\ result = FFromInt(0 - 1)
  /\ LastKeptDigit(result, scale) = 0

\* C3: on a tie half_up returns ceil and half_down returns floor whatever
\* the sign; half_towards_zero returns ceil iff value < 0, the candidate of
\* smaller magnitude; half_away_from_zero returns ceil iff value >= 0, the
\* candidate of larger magnitude.
C3_DirectedTies ==
  /\ TieCall("half_up") => result = ceil(value, scale)
  /\ TieCall("half_down") => result = floor(value, scale)
  /\ TieCall("half_towards_zero") =>
       /\ result = IF FLtZero(value) THEN ceil(value, scale)
                   ELSE floor(value, scale)
       /\ FLe(FAbs(result), FAbs(ceil(value, scale)))
       /\ FLe(FAbs(result), FAbs(floor(value, scale)))
  /\ TieCall("half_away_from_zero") =>
       /\ result = IF ~FLtZero(value) THEN ceil(value, scale)
                   ELSE floor(value, scale)
       /\ FLe(FAbs(ceil(value, scale)), FAbs(result))
       /\ FLe(FAbs(floor(value, scale)), FAbs(result))

\* half_towards_zero(-1.05, 1) = -1.0, the ceiling
C3_Witness ==
  /\ TieCall("half_towards_zero")
  /\ value = Literal(0 - 105) /\ scale = 1
  /\ result = FFromInt(0 - 1)
  /\ result = ceil(value, scale)
  /\ result # floor(value, scale)

\* C4: off a tie the seven half_* / stochastic functions all return
\* ceil(value, scale) when (value < 0) XOR (decisiveDigit > 5) and
\* floor(value, scale) otherwise, without consulting the random source, and
\* that result is the multiple of 10^-scale nearest to value.
C4_OffTieNearest ==
  (/\ pc = "done" /\ func \in HalfFunctions
   /\ IsFinite(value) /\ Digits[2] # 5) =>
    /\ result = round(value, scale, FLtZero(value) # (Digits[2] > 5))
    /\ ~drew
    /\ \E n \in NearestUnits(value, scale) : FEq(result, Multiple(n, scale))

\* C5: idempotence, P(P(v, s), s) == P(v, s) for each of the nine functions
\* and every outcome of the random source.
C5_Idempotent ==
  (pc = "done" /\ fed = func /\ IsFinite(value)) => FEq(result, value)

\* C6: NaN yields NaN, +Infinity yields +Infinity, -Infinity yields
\* -Infinity for each of the nine functions; significant_digits returns
\* (0, 0) for them, so no tie rule is applied and nothing is drawn.
C6_NonFinite ==
  (pc = "done" /\ ~IsFinite(value)) =>
    /\ result = value
    /\ Digits = <<0, 0>>
    /\ ~drew

\* stochastic(-Infinity, 1) = -Infinity without a draw
C6_Witness ==
  /\ Returned("stochastic")
  /\ value = Inf(TRUE) /\ scale = 1
  /\ result = Inf(TRUE)
  /\ ~drew

\* C7: floor(v, s) <= v <= ceil(v, s) for every finite v, the two being
\* integer multiples of 10^-s that differ by 0 or by exactly 10^-s.
C7_FloorValueCeil ==
  (pc = "done" /\ func \in {"ceil", "floor"} /\ IsFinite(value)) =>
    /\ FLe(floor(value, scale), value)
    /\ FLe(value, ceil(value, scale))
    /\ LET n == FToI64(FFloor(FMul(value, Pow10(scale))))
       IN  /\ FEq(floor(value, scale), Multiple(n, scale))
           /\ \E k \in {0, 1} : FEq(ceil(value, scale), Multiple(n + k, scale))

\* C8: on a tie stochastic returns floor(value, scale) or ceil(value,
\* scale) and nothing else, chosen by one random boolean drawn in the call,
\* and both outcomes are possible for the same input.
C8_StochasticTie ==
  /\ TieCall("stochastic") =>
       /\ drew
       /\ result = IF coin THEN ceil(value, scale) ELSE floor(value, scale)
  /\ (IsFinite(value) /\ Digits[2] = 5) =>
       /\ stochastic(value, scale, TRUE).val = ceil(value, scale)
       /\ stochastic(value, scale, FALSE).val = floor(value, scale)
       /\ ~FEq(ceil(value, scale), floor(value, scale))

\* stochastic(1.5, 0) = 2.0 on a draw of true
C8_Witness ==
  /\ TieCall("stochastic")
  /\ value = Literal(150) /\ scale = 0
  /\ coin
  /\ result = FFromInt(2)
  /\ floor(value, scale) = FFromInt(1)

\* C9: whenever significant_digits reports decisiveDigit == 5 the value is
\* exactly the midpoint between floor(v, s) and ceil(v, s).
C9_TieIsExact ==
  (pc = "done" /\ func \in HalfFunctions /\ IsFinite(value)
   /\ Digits[2] = 5) =>
    ExactScaled(value, scale).frac = "half"

\* C10: significant_digits(v, s) is (last digit of the integer part of
\* |v| * 10^s, the digit after it), both in 0..9, the same for v and -v.
C10_DigitsOfValue ==
  (pc = "done" /\ func \in HalfFunctions /\ literal # << >> /\ ulp = 0) =>
    /\ Digits = DecimalDigits(literal[1], scale)
    /\ Digits[1] \in 0..9 /\ Digits[2] \in 0..9
    /\ Digits = significant_digits(FNeg(value), scale)

====
